---- MODULE Spec2Model ----
(***************************************************************************)
(* Model of add_wikidata_qids.py ("ChatGPT returned for initial            *)
(* tagging.py"): safe_get, search_wikidata, get_entity_data,               *)
(* score_candidate, find_candidates_for_row and the row loop of main.      *)
(*                                                                         *)
(* Representation of Python values                                         *)
(*   str      a sequence of one-character strings; '' is <<>>              *)
(*   None     None (where a str is expected), NoJson (where safe_get       *)
(*            returns None instead of a decoded JSON document)             *)
(*   dict     a function from keys to values; a key the dict lacks is      *)
(*            outside its DOMAIN; {} is EmptyDict                          *)
(*   list     a sequence                                                   *)
(*   float    an IEEE-754 double, held exactly as the integer              *)
(*            value * 2^57 in two limbs <<hi, lo>> of 30 bits              *)
(***************************************************************************)
EXTENDS Integers, Sequences, FiniteSets, TLC

VARIABLES
    rows,         \* main: the rows read from the input CSV
    threshold,    \* main: the --threshold argument
    idx,          \* main: position of the row loop, 1-based
    pc,           \* "loop", "scoring", "done" or "crashed"
    error,        \* the exception that ended the run, "" when none
    results,      \* main: the output records appended so far
    search_hits,  \* find_candidates_for_row: res.get('search', [])
    scored,       \* the tuples scored so far; sorted once the row is done
    ent,          \* score_candidate: what its get_entity_data call returned
    searchCalls,  \* per row, the search_wikidata calls made for it
    entityCalls,  \* per row, the get_entity_data calls made for it
    returned,     \* per row, how many candidates search_wikidata returned
    searchFailed, \* the rows whose search_wikidata call returned no data
    linked        \* the ids in scored that were given the enwiki bonus

vars == <<rows, threshold, idx, pc, error, results, search_hits, scored, ent,
          searchCalls, entityCalls, returned, searchFailed, linked>>

(***************************************************************************)
(* Python values                                                           *)
(***************************************************************************)
None == <<"None">>
NoJson == [none |-> TRUE]
EmptyDict == [k \in {} |-> k]

\* d.get(k): the value under k, None when the dict has no such key
get(d, k) == IF k \in DOMAIN d THEN d[k] ELSE None

\* d.get(k, default)
get_default(d, k, default) == IF k \in DOMAIN d THEN d[k] ELSE default

\* truth value of a str-or-None
truthy(v) == v # None /\ v # <<>>

\* a or b, on str-or-None operands
Or(a, b) == IF truthy(a) THEN a ELSE b

\* truth value of what safe_get returned: None and {} are false
truthy_json(j) == j # NoJson /\ DOMAIN j # {}

(***************************************************************************)
(* str.lower, str.split, the substring test "a in b"                       *)
(***************************************************************************)
UpperCase == <<"A","B","C","D","E","F","G","H","I","J","K","L","M",
               "N","O","P","Q","R","S","T","U","V","W","X","Y","Z">>
LowerCase == <<"a","b","c","d","e","f","g","h","i","j","k","l","m",
               "n","o","p","q","r","s","t","u","v","w","x","y","z">>

lower_map == [c \in {UpperCase[i] : i \in 1..26} |->
                 LowerCase[CHOOSE i \in 1..26 : UpperCase[i] = c]]

lower_char(c) == IF c \in DOMAIN lower_map THEN lower_map[c] ELSE c

lower(s) == [i \in 1..Len(s) |-> lower_char(s[i])]

isspace(c) == c \in {" ", "\t"}

RECURSIVE split_from(_, _, _)
split_from(s, i, cur) ==
    IF i > Len(s)
    THEN IF cur = <<>> THEN <<>> ELSE <<cur>>
    ELSE IF isspace(s[i])
         THEN IF cur = <<>>
              THEN split_from(s, i + 1, <<>>)
              ELSE <<cur>> \o split_from(s, i + 1, <<>>)
         ELSE split_from(s, i + 1, Append(cur, s[i]))

\* s.split(): the maximal runs of non-whitespace characters, in order
split(s) == split_from(s, 1, <<>>)

\* a in b, for two str
in(a, b) ==
    \E i \in 0..(Len(b) - Len(a)) : SubSeq(b, i + 1, i + Len(a)) = a

\* set(tokens)
set(seq) == {seq[i] : i \in 1..Len(seq)}

(***************************************************************************)
(* IEEE-754 double addition and comparison for the non-negative values     *)
(* the scorer meets (all below 4.0).  A double x is the pair <<hi, lo>>    *)
(* with x * 2^57 = hi * 2^30 + lo.  The exact sum is rounded to 53         *)
(* significant bits, ties to even.                                         *)
(***************************************************************************)
Limb == 2^30

RECURSIVE bit_length(_)
bit_length(n) == IF n = 0 THEN 0 ELSE 1 + bit_length(n \div 2)

float_add(a, b) ==
    LET lo0  == a[2] + b[2]
        hi   == a[1] + b[1] + (lo0 \div Limb)
        lo   == lo0 % Limb
        d    == IF bit_length(hi) > 23 THEN bit_length(hi) - 23 ELSE 0
        q    == 2^d
        rem  == lo % q
        kept == lo - rem
        up   == /\ d > 0
                /\ \/ 2 * rem > q
                   \/ 2 * rem = q /\ (lo \div q) % 2 = 1
        lo1  == IF up THEN kept + q ELSE kept
    IN  <<hi + (lo1 \div Limb), lo1 % Limb>>

float_lt(a, b) == a[1] < b[1] \/ (a[1] = b[1] /\ a[2] < b[2])
float_gt(a, b) == float_lt(b, a)
float_ge(a, b) == ~ float_lt(a, b)

\* the float literals of the source
F_0_0  == <<0, 0>>
F_0_45 == <<60397977, 644245096>>
F_0_30 == <<40265318, 429496728>>
F_0_15 == <<20132659, 214748364>>
F_0_05 == <<6710886, 429496730>>
F_0_20 == <<26843545, 644245096>>
F_1_0  == <<134217728, 0>>
\* values --threshold can be given, 0.8 being the default
F_0_8  == <<107374182, 429496736>>
F_0_65 == <<87241523, 214748368>>

(***************************************************************************)
(* safe_get                                                                *)
(***************************************************************************)
retries == 3

\* responses[i] is what the i-th requests.get of this call meets:
\*   [status |-> 200, json |-> j]   a 200 answer decoding to j
\*   [status |-> 503]               a non-200 answer
\*   [status |-> 0]                 requests.get or r.json() raised
RECURSIVE safe_get_from(_, _)
safe_get_from(responses, attempt) ==
    IF attempt >= retries
    THEN NoJson
    ELSE IF responses[attempt + 1].status = 200
         THEN responses[attempt + 1].json
         ELSE safe_get_from(responses, attempt + 1)

safe_get(responses) == safe_get_from(responses, 0)

\* search_wikidata and get_entity_data only build the URL and call safe_get
search_wikidata(responses) == safe_get(responses)
get_entity_data(responses) == safe_get(responses)

(***************************************************************************)
(* score_candidate                                                         *)
(***************************************************************************)
label_score_substring_first(candidate, row) ==
    LET label == lower(Or(get(candidate, "label"), <<>>))
        term  == lower(Or(get(row, "wiki_label"), Or(get(row, "word"), <<>>)))
    IN  IF in(term, label) \/ in(label, term)
        THEN float_add(F_0_0, F_0_30)
        ELSE IF label = term
             THEN float_add(F_0_0, F_0_45)
             ELSE IF set(split(term)) \cap set(split(label)) # {}
                  THEN float_add(F_0_0, F_0_15)
                  ELSE F_0_0

\* lines 55-66: the label tier
label_score(candidate, row) ==
    LET label == lower(Or(get(candidate, "label"), <<>>))
        term  == lower(Or(get(row, "wiki_label"), Or(get(row, "word"), <<>>)))
    IN  IF label = term
        THEN float_add(F_0_0, F_0_45)
        ELSE IF in(term, label) \/ in(label, term)
             THEN float_add(F_0_0, F_0_30)
             ELSE IF set(split(term)) \cap set(split(label)) # {}
                  THEN float_add(F_0_0, F_0_15)
                  ELSE F_0_0

\* line 71: the tokens the description is searched for
context_tokens(row) ==
    split(lower(get_default(row, "geo_path", <<>>) \o <<" ">>
                \o get_default(row, "time_path", <<>>) \o <<" ">>
                \o get_default(row, "category", <<>>)))

\* lines 71-73: one addition of 0.05 for each token found in desc
RECURSIVE add_tokens(_, _, _, _)
add_tokens(score, tokens, i, desc) ==
    IF i > Len(tokens)
    THEN score
    ELSE add_tokens(IF tokens[i] # <<>> /\ in(tokens[i], desc)
                    THEN float_add(score, F_0_05) ELSE score,
                    tokens, i + 1, desc)

\* lines 69-73
description_score(score, candidate, row) ==
    LET desc == lower(Or(get(candidate, "description"), <<>>))
    IN  IF desc # <<>>
        THEN add_tokens(score, context_tokens(row), 1, desc)
        ELSE score

has_entry(candidate, doc) ==
    /\ truthy_json(doc)
    /\ candidate.id \in DOMAIN get_default(doc, "entities", EmptyDict)

\* lines 78-82: does the entity document carry an enwiki sitelink
has_enwiki(candidate, doc) ==
    /\ truthy_json(doc)
    /\ LET entities  == get_default(doc, "entities", EmptyDict)
           e         == get_default(entities, candidate.id, EmptyDict)
           sitelinks == get_default(e, "sitelinks", EmptyDict)
       IN  "enwiki" \in DOMAIN sitelinks

\* lines 77-83
sitelink_score(score, candidate, doc) ==
    IF has_enwiki(candidate, doc) THEN float_add(score, F_0_20) ELSE score

normalize_none(score) == score

\* lines 86-87
normalize(score) == IF float_gt(score, F_1_0) THEN F_1_0 ELSE score

\* doc is what get_entity_data(candidate['id']) returned
score_candidate(candidate, row, doc) ==
    normalize(
        sitelink_score(
            description_score(label_score(candidate, row), candidate, row),
            candidate, doc))

(***************************************************************************)
(* find_candidates_for_row and main                                        *)
(***************************************************************************)
TBD == <<"T", "B", "D">>

\* line 92: the label the row is searched under
query_label(row) == Or(get(row, "wiki_label"), get(row, "word"))

skip_row_inverted(r) ==
    \/ truthy(get(r, "wiki_qid")) /\ get(r, "wiki_qid") = TBD
    \/ get(r, "wiki_label") = None /\ get(r, "word") = <<>>

\* line 117: the row is appended as it is and not resolved
skip_row(r) ==
    \/ truthy(get(r, "wiki_qid")) /\ get(r, "wiki_qid") # TBD
    \/ get(r, "wiki_label") = None /\ get(r, "word") = <<>>

\* line 102: the tuple kept for a scored candidate
scored_tuple(c, conf) == <<c.id, get(c, "label"), get(c, "description"), conf>>

insert_unstable(sorted, x) ==
    LET p == Cardinality({i \in 1..Len(sorted) : float_gt(sorted[i][4], x[4])})
    IN  SubSeq(sorted, 1, p) \o <<x>> \o SubSeq(sorted, p + 1, Len(sorted))

\* line 104: scored.sort(key=lambda x: x[3], reverse=True); the sort is
\* stable, so x goes behind every element whose confidence is not lower
insert_sorted(sorted, x) ==
    LET p == Cardinality({i \in 1..Len(sorted) : float_ge(sorted[i][4], x[4])})
    IN  SubSeq(sorted, 1, p) \o <<x>> \o SubSeq(sorted, p + 1, Len(sorted))

RECURSIVE sort_from(_, _, _)
sort_from(sorted, seq, i) ==
    IF i > Len(seq) THEN sorted
    ELSE sort_from(insert_sorted(sorted, seq[i]), seq, i + 1)

sort_by_confidence(seq) == sort_from(<<>>, seq, 1)

accepted_strict(s, thr) == float_gt(s[4], thr)

\* line 105: the comprehension's condition, conf >= threshold
accepted(s, thr) == float_ge(s[4], thr)

\* line 105
candidates_of(sortedScored, thr) ==
    LET kept == SelectSeq(sortedScored, LAMBDA s : accepted(s, thr))
    IN  [i \in 1..Len(kept) |->
            [qid |-> kept[i][1], label |-> kept[i][2],
             description |-> kept[i][3], confidence |-> kept[i][4]]]

fallback_all(sortedScored) ==
    [i \in 1..Len(sortedScored) |->
        [qid |-> sortedScored[i][1], label |-> sortedScored[i][2],
         desc |-> sortedScored[i][3], raw_conf |-> sortedScored[i][4]]]

\* lines 131-132: the list written when nothing was accepted
fallback_of(sortedScored) ==
    LET top == SubSeq(sortedScored, 1, IF Len(sortedScored) < 3
                                       THEN Len(sortedScored) ELSE 3)
    IN  [i \in 1..Len(top) |->
            [qid |-> top[i][1], label |-> top[i][2],
             desc |-> top[i][3], raw_conf |-> top[i][4]]]

\* json.dumps(list): the JSON text is held as the list it encodes
json_dumps(list) == list

\* r_out = dict(r) followed by the assignments of the keys of upd
with_keys(r, upd) ==
    [k \in DOMAIN r \cup DOMAIN upd |-> IF k \in DOMAIN upd THEN upd[k] ELSE r[k]]

\* lines 123-134
attach(r, candidates, sortedScored) ==
    IF candidates # <<>>
    THEN with_keys(r, [wiki_qid_candidates |-> json_dumps(candidates),
                       wiki_qid            |-> candidates[1].qid,
                       wiki_qid_confidence |-> candidates[1].confidence])
    ELSE with_keys(r, [wiki_qid_candidates |-> json_dumps(fallback_of(sortedScored)),
                       wiki_qid            |-> <<>>,
                       wiki_qid_confidence |-> <<>>])

\* a call counter of the current row goes up by one
bump(counts) == [counts EXCEPT ![idx] = @ + 1]

\* an exception nobody catches ends the run
raise(exc) ==
    /\ pc' = "crashed"
    /\ error' = exc

(***************************************************************************)
(* The answers of the two services                                         *)
(***************************************************************************)
\* the requests.get of one safe_get call: attempt n answers 200 with
\* document j, the others fail (non-200 or an exception); n = retries + 1
\* is the call no attempt of which succeeds
stream(n, j) ==
    [i \in 1..retries |->
        IF i = n THEN [status |-> 200, json |-> j]
        ELSE IF i % 2 = 1 THEN [status |-> 503] ELSE [status |-> 0]]

Streams(documents) == {stream(n, j) : n \in 1..(retries + 1), j \in documents}

\* wbsearchentities documents: {}, an error document without 'search',
\* and a document with a list of hits
SearchDocuments(hitLists) ==
    {EmptyDict, [error |-> TRUE]} \cup {[search |-> h] : h \in hitLists}

\* Special:EntityData documents for qid: an entry without 'sitelinks', and
\* one with sitelinks to dewiki and enwiki
no_sitelinks(qid) == [entities |-> [q \in {qid} |-> [type |-> "item"]]]
enwiki_item(qid) ==
    [entities |-> [q \in {qid} |-> [sitelinks |-> [dewiki |-> TRUE, enwiki |-> TRUE]]]]

LinkDocuments(qid) == {no_sitelinks(qid), enwiki_item(qid)}

\* and further: {}, no 'entities', no entry for qid, sitelinks without enwiki
EntityDocuments(qid) ==
    LinkDocuments(qid) \cup
    { EmptyDict,
      [error |-> TRUE],
      [entities |-> EmptyDict],
      [entities |-> [q \in {qid} |-> [sitelinks |-> [dewiki |-> TRUE]]]] }

(***************************************************************************)
(* Actions                                                                 *)
(***************************************************************************)
\* lines 117-120: the row is already filled or has nothing to search
SkipRow ==
    /\ pc = "loop"
    /\ idx <= Len(rows)
    /\ skip_row(rows[idx])
    /\ results' = Append(results, rows[idx])
    /\ idx' = idx + 1
    /\ UNCHANGED <<rows, threshold, pc, error, search_hits, scored, ent,
                   searchCalls, entityCalls, returned, searchFailed, linked>>

\* lines 92-94 and 121: no label; find_candidates_for_row returns [] and
\* "candidates, scored = []" raises ValueError
NoLabel ==
    /\ pc = "loop"
    /\ idx <= Len(rows)
    /\ ~ skip_row(rows[idx])
    /\ ~ truthy(query_label(rows[idx]))
    /\ raise("ValueError")
    /\ UNCHANGED <<rows, threshold, idx, results, search_hits, scored, ent,
                   searchCalls, entityCalls, returned, searchFailed, linked>>

\* lines 95-99 and 121: the search; when it yields nothing
\* find_candidates_for_row returns [] and the unpacking raises ValueError
Search(hitLists) ==
    /\ pc = "loop"
    /\ idx <= Len(rows)
    /\ ~ skip_row(rows[idx])
    /\ truthy(query_label(rows[idx]))
    /\ \E responses \in Streams(SearchDocuments(hitLists)) :
         LET res == search_wikidata(responses)
         IN  /\ searchCalls' = bump(searchCalls)
             /\ IF ~ truthy_json(res)
                THEN /\ raise("ValueError")
                     /\ searchFailed' = searchFailed \cup {idx}
                     /\ UNCHANGED <<search_hits, scored, returned, linked>>
                ELSE /\ search_hits' = get_default(res, "search", <<>>)
                     /\ scored' = <<>>
                     /\ linked' = {}
                     /\ returned' = [returned EXCEPT ![idx] = Len(search_hits')]
                     /\ pc' = "scoring"
                     /\ UNCHANGED <<error, searchFailed>>
    /\ UNCHANGED <<rows, threshold, idx, results, ent, entityCalls>>

Score_once_per_record(documents) ==
    /\ pc = "scoring"
    /\ Len(scored) < Len(search_hits)
    /\ LET c   == search_hits[Len(scored) + 1]
           row == rows[idx]
       IN  \E pre \in {description_score(label_score(c, row), c, row)},
              responses \in Streams(documents[c.id]) :
             /\ ent' = IF Len(scored) = 0 THEN get_entity_data(responses) ELSE ent
             /\ scored' = Append(scored,
                    scored_tuple(c, normalize(sitelink_score(pre, c, ent'))))
             /\ linked' = IF has_enwiki(c, ent') THEN linked \cup {c.id} ELSE linked
    /\ entityCalls' = IF Len(scored) = 0 THEN bump(entityCalls) ELSE entityCalls
    /\ UNCHANGED <<rows, threshold, idx, pc, error, results, search_hits,
                   searchCalls, returned, searchFailed>>

\* lines 100-102: one turn of the loop over search_hits, which calls
\* score_candidate and with it get_entity_data; documents[qid] are the
\* documents Special:EntityData may serve for qid
Score(documents) ==
    /\ pc = "scoring"
    /\ Len(scored) < Len(search_hits)
    /\ LET c   == search_hits[Len(scored) + 1]
           row == rows[idx]
       IN  \E pre \in {description_score(label_score(c, row), c, row)},
              responses \in Streams(documents[c.id]) :
             /\ ent' = get_entity_data(responses)
             /\ scored' = Append(scored,
                    scored_tuple(c, normalize(sitelink_score(pre, c, ent'))))
             /\ linked' = IF has_enwiki(c, ent') THEN linked \cup {c.id} ELSE linked
    /\ entityCalls' = bump(entityCalls)
    /\ UNCHANGED <<rows, threshold, idx, pc, error, results, search_hits,
                   searchCalls, returned, searchFailed>>

\* lines 104-106 and 123-136: sort, select, attach, append
Attach ==
    /\ pc = "scoring"
    /\ Len(scored) = Len(search_hits)
    /\ scored' = sort_by_confidence(scored)
    /\ results' = Append(results,
           attach(rows[idx], candidates_of(scored', threshold), scored'))
    /\ idx' = idx + 1
    /\ pc' = "loop"
    /\ search_hits' = <<>>
    /\ ent' = NoJson
    /\ UNCHANGED <<rows, threshold, error, searchCalls, entityCalls, returned,
                   searchFailed, linked>>

\* lines 138-146: results[0] of an empty list raises IndexError; DictWriter
\* raises ValueError for a record with a key outside fieldnames
WriteOutputs ==
    /\ pc = "loop"
    /\ idx > Len(rows)
    /\ IF results = <<>>
       THEN raise("IndexError")
       ELSE IF \E i \in 1..Len(results) : ~ (DOMAIN results[i] \subseteq DOMAIN results[1])
            THEN raise("ValueError")
            ELSE pc' = "done" /\ UNCHANGED error
    /\ UNCHANGED <<rows, threshold, idx, results, search_hits, scored, ent,
                   searchCalls, entityCalls, returned, searchFailed, linked>>

InitWith(batches, thresholds) ==
    /\ rows \in batches
    /\ threshold \in thresholds
    /\ idx = 1
    /\ pc = "loop"
    /\ error = ""
    /\ results = <<>>
    /\ search_hits = <<>>
    /\ scored = <<>>
    /\ ent = NoJson
    /\ searchCalls = [i \in 1..Len(rows) |-> 0]
    /\ entityCalls = [i \in 1..Len(rows) |-> 0]
    /\ returned = [i \in 1..Len(rows) |-> 0]
    /\ searchFailed = {}
    /\ linked = {}

(***************************************************************************)
(* Inputs: CSV files, thresholds, answers of the services                  *)
(***************************************************************************)
MaxRows == 2        \* rows of a file, where whole files are processed
MaxBatchHits == 2   \* hits of a search answer, where whole files are processed
MaxHits == 4        \* hits of a search answer, where one row is processed
MaxRep == 5         \* repetitions of a token in a context field

Q42 == <<"Q", "4", "2">>
A_b == <<"A", " ", "b">>
b_d == <<"b", " ", "d">>

\* n copies of token separated by single spaces
RECURSIVE rep(_, _)
rep(token, n) ==
    IF n = 0 THEN <<>>
    ELSE IF n = 1 THEN token ELSE token \o <<" ">> \o rep(token, n - 1)

\* a CSV record; its context fields hold 3 * n tokens that occur in the
\* description "X y" and one that does not
record(qid, wiki_label, word, n) ==
    [wiki_qid   |-> qid,
     wiki_label |-> wiki_label,
     word       |-> word,
     geo_path   |-> rep(<<"X">>, n),
     time_path  |-> rep(<<"y">>, n),
     category   |-> rep(<<"x">>, n) \o <<" ", "q">>]

Columns == {"wiki_qid", "wiki_label", "word", "geo_path", "time_path", "category"}

\* the header rows of the input files: all columns, or a label column missing
Headers == {Columns, Columns \ {"wiki_label"}, Columns \ {"word"},
            Columns \ {"wiki_label", "word"}}

\* csv.DictReader: a record has the keys of the header
read(r, header) == [k \in header |-> r[k]]

BatchRecords ==
    { record(Q42,  A_b,  b_d,  1),
      record(Q42,  <<>>, <<>>, 0),
      record(<<>>, <<>>, <<>>, 0),
      record(TBD,  A_b,  b_d,  1) }

RowRecords ==
    { record(Q42,  A_b,  b_d,  1),
      record(TBD,  <<>>, <<>>, 0) }
    \cup {record(TBD, <<>>, A_b, n) : n \in {1, MaxRep}}

ScoreRecords ==
    BatchRecords \cup
    {record(qid, l[1], l[2], n) :
        qid \in {<<>>, TBD},
        l \in {<<A_b, b_d>>, <<<<>>, A_b>>, <<<<>>, b_d>>},
        n \in 0..MaxRep}

\* the files of at most n records drawn from records, under each header
Files(records, headers, n) ==
    UNION {[1..m -> {read(r, h) : r \in records}] : m \in 0..n, h \in headers}

\* a wbsearchentities hit without its id
exact_hit   == [label |-> <<"a", " ", "B">>, description |-> <<"X", " ", "y">>]
substr_hit  == [label |-> <<"a", " ", "b", " ", "c">>, description |-> <<"X", " ", "y">>]
token_hit   == [label |-> <<"b", " ", "d">>, description |-> <<"X", " ", "y">>]
other_hit   == [label |-> <<"d">>, description |-> <<"z">>]
bare_hit    == [aliases |-> <<>>]

Digits == <<"1", "2", "3", "4", "5", "6", "7", "8", "9">>

Qids == {<<"Q", Digits[i]>> : i \in 1..Len(Digits)}

\* the i-th hit of an answer carries the id Q<i>
hit(shape, i) == with_keys(shape, [id |-> <<"Q", Digits[i]>>])

\* the hit lists of at most n hits of the given shapes
HitLists(shapes, n) ==
    UNION {{[i \in 1..m |-> hit(f[i], i)] : f \in [1..m -> shapes]} : m \in 0..n}

BatchHitLists == HitLists({exact_hit}, MaxBatchHits)
RowHitLists == HitLists({exact_hit, substr_hit, token_hit}, MaxHits)
ScoreHitLists == HitLists({exact_hit, substr_hit, token_hit, other_hit, bare_hit}, 1)

AllDocuments == [qid \in Qids |-> EntityDocuments(qid)]
SomeDocuments == [qid \in Qids |-> LinkDocuments(qid)]

(***************************************************************************)
(* Specifications                                                          *)
(***************************************************************************)
\* whole files under the default threshold
Init == InitWith(Files(BatchRecords, Headers, MaxRows), {F_0_8})

Next ==
    \/ SkipRow
    \/ NoLabel
    \/ Search(BatchHitLists)
    \/ Score(AllDocuments)
    \/ Attach
    \/ WriteOutputs

Spec == Init /\ [][Next]_vars

\* files of one row, with longer answers and a second threshold
InitRow == InitWith(Files(RowRecords, {Columns}, 1) \ {<<>>}, {F_0_8, F_0_65})

NextRow ==
    \/ SkipRow
    \/ NoLabel
    \/ Search(RowHitLists)
    \/ Score(SomeDocuments)
    \/ Attach
    \/ WriteOutputs

SpecRow == InitRow /\ [][NextRow]_vars

\* files of one row and answers of one hit, over all the shapes of rows,
\* hits and entity documents
InitScore == InitWith(Files(ScoreRecords, Headers, 1) \ {<<>>}, {F_0_8})

NextScore ==
    \/ SkipRow
    \/ NoLabel
    \/ Search(ScoreHitLists)
    \/ Score(AllDocuments)
    \/ Attach
    \/ WriteOutputs

SpecScore == InitScore /\ [][NextScore]_vars

(***************************************************************************)
(* Vocabulary of the properties                                            *)
(***************************************************************************)
\* wiki_qid is empty or "TBD"
needs_resolution(r) == ~ truthy(get(r, "wiki_qid")) \/ get(r, "wiki_qid") = TBD

\* wiki_qid is non-empty and different from "TBD"
already_resolved(r) == truthy(get(r, "wiki_qid")) /\ get(r, "wiki_qid") # TBD

\* wiki_label or word is present and non-empty
has_label(r) == truthy(get(r, "wiki_label")) \/ truthy(get(r, "word"))

\* the output record of row i has been appended
emitted(i) == i <= Len(results)

\* the row before idx was searched and its output record appended: scored is
\* its sorted list, linked its candidates with the bonus
RowResolved ==
    /\ pc # "scoring"
    /\ idx > 1
    /\ Len(results) = idx - 1
    /\ searchCalls[idx - 1] = 1
    /\ (idx - 1) \notin searchFailed

ResolvedRow == rows[idx - 1]
OutputRecord == results[idx - 1]

\* the place of a candidate in the answer of the Candidate Source
position(qid) == CHOOSE i \in 1..Len(Digits) : Digits[i] = qid[2]

\* the confidence of an entry of wiki_qid_candidates
entry_confidence(e) ==
    IF "confidence" \in DOMAIN e THEN e.confidence ELSE e.raw_conf

\* the label tier of a label against the row's query label: 3 exact,
\* 2 substring, 1 shared token, 0 none
tier(label, row) ==
    LET l == lower(Or(label, <<>>))
        t == lower(Or(query_label(row), <<>>))
    IN  IF l = t THEN 3
        ELSE IF in(l, t) \/ in(t, l) THEN 2
        ELSE IF \E x \in set(split(l)) : x \in set(split(t)) THEN 1
        ELSE 0

\* how many context tokens of the row occur in the description
matches(description, row) ==
    LET desc == lower(Or(description, <<>>))
        tokens == context_tokens(row)
    IN  IF desc = <<>> THEN 0
        ELSE Cardinality({i \in 1..Len(tokens) : in(tokens[i], desc)})

RECURSIVE plus_tokens(_, _)
plus_tokens(score, k) ==
    IF k = 0 THEN score ELSE plus_tokens(float_add(score, F_0_05), k - 1)

tier_points(t) ==
    IF t = 3 THEN F_0_45 ELSE IF t = 2 THEN F_0_30 ELSE IF t = 1 THEN F_0_15 ELSE F_0_0

\* the sum of the three contributions, before the cap
contributions(label, description, row, bonus) ==
    LET s == plus_tokens(tier_points(tier(label, row)), matches(description, row))
    IN  IF bonus THEN float_add(s, F_0_20) ELSE s

capped(score) == IF float_gt(score, F_1_0) THEN F_1_0 ELSE score

\* the entity document is missing or lacks what the scorer reads
degraded(doc, qid) ==
    \/ doc = NoJson
    \/ "entities" \notin DOMAIN doc
    \/ qid \notin DOMAIN doc.entities
    \/ "sitelinks" \notin DOMAIN doc.entities[qid]

(***************************************************************************)
(* C1  A row whose search_wikidata call returns no data ends Unresolved    *)
(* with an empty candidate list, an empty wiki_qid and an empty            *)
(* wiki_qid_confidence; no error is raised and the run goes on.            *)
(***************************************************************************)
C1_FailedSearchIsSoft ==
    \A i \in searchFailed :
        /\ error = ""
        /\ pc # "crashed"
        /\ emitted(i) =>
             /\ results[i].wiki_qid = <<>>
             /\ results[i].wiki_qid_confidence = <<>>
             /\ results[i].wiki_qid_candidates = <<>>

(***************************************************************************)
(* C2  A record that needs resolution and has no queryable label is        *)
(* skipped: it is appended unchanged, no service is called, no error is    *)
(* raised.                                                                 *)
(***************************************************************************)
C2_NoLabelIsSkipped ==
    \A i \in 1..Len(rows) :
        (needs_resolution(rows[i]) /\ ~ has_label(rows[i])) =>
            /\ searchCalls[i] = 0
            /\ entityCalls[i] = 0
            /\ ~ (pc = "crashed" /\ idx = i)
            /\ emitted(i) => results[i] = rows[i]

(***************************************************************************)
(* C3  A record whose wiki_qid is non-empty and not "TBD" causes no        *)
(* service call and is emitted with every field unchanged; the emitted     *)
(* record is again one that is passed through.                             *)
(***************************************************************************)
C3_ResolvedRecordPassesThrough ==
    \A i \in 1..Len(rows) :
        already_resolved(rows[i]) =>
            /\ searchCalls[i] = 0
            /\ entityCalls[i] = 0
            /\ ~ (pc \in {"scoring", "crashed"} /\ idx = i)
            /\ emitted(i) =>
                 /\ results[i] = rows[i]
                 /\ already_resolved(results[i])
                 /\ skip_row(results[i])

C3_Witness ==
    /\ pc = "done"
    /\ \E i \in 1..Len(rows) :
         /\ already_resolved(rows[i])
         /\ has_label(rows[i])
         /\ results[i] = rows[i]
         /\ \E j \in 1..(i - 1) : searchCalls[j] = 1

(***************************************************************************)
(* C4  Of two candidates of one row that differ only in their label tier   *)
(* (same description, same canonical-link presence), the one of the        *)
(* higher tier is ranked strictly ahead, whatever the order of the answer  *)
(* and however many context tokens match.  Tiers: exact, substring,        *)
(* token overlap.                                                          *)
(***************************************************************************)
differ_in_tier_only(i, j) ==
    /\ scored[i][3] = scored[j][3]
    /\ (scored[i][1] \in linked) = (scored[j][1] \in linked)
    /\ tier(scored[i][2], ResolvedRow) > tier(scored[j][2], ResolvedRow)
    /\ tier(scored[j][2], ResolvedRow) > 0

C4_HigherTierAlwaysAhead ==
    RowResolved =>
        \A i, j \in 1..Len(scored) : differ_in_tier_only(i, j) => i < j

\* C4 as amended: the higher tier is strictly ahead whenever the confidence
\* of the lower-tier candidate is below 1.0; otherwise both confidences are
\* 1.0 and the two keep the order of the Candidate Source
C4_HigherTierAheadBelowCap ==
    RowResolved =>
        \A i, j \in 1..Len(scored) :
            differ_in_tier_only(i, j) =>
                IF float_lt(scored[j][4], F_1_0)
                THEN i < j
                ELSE /\ scored[i][4] = F_1_0
                     /\ scored[j][4] = F_1_0
                     /\ (i < j) = (position(scored[i][1]) < position(scored[j][1]))

C4_Witness ==
    /\ RowResolved
    /\ \E i, j \in 1..Len(scored) :
         /\ differ_in_tier_only(i, j)
         /\ float_lt(scored[j][4], F_1_0)
         /\ position(scored[i][1]) > position(scored[j][1])
         /\ i < j

(***************************************************************************)
(* C5  Every confidence score_candidate returns lies in [0.0, 1.0] and is  *)
(* the sum of the label-tier, description-overlap and canonical-link       *)
(* contributions capped at 1.0.                                            *)
(***************************************************************************)
C5_ConfidenceIsCappedSum ==
    pc = "scoring" =>
        \A j \in 1..Len(scored) :
            LET c    == search_hits[j]
                conf == scored[j][4]
            IN  /\ float_ge(conf, F_0_0)
                /\ float_ge(F_1_0, conf)
                /\ conf = capped(contributions(get(c, "label"), get(c, "description"),
                                               rows[idx], c.id \in linked))

C5_Witness ==
    /\ pc = "scoring"
    /\ \E j \in 1..Len(scored) :
         LET c == search_hits[j]
         IN  /\ float_gt(contributions(get(c, "label"), get(c, "description"),
                                       rows[idx], c.id \in linked), F_1_0)
             /\ scored[j][4] = F_1_0

(***************************************************************************)
(* C6  A row is Accepted exactly when a returned candidate has             *)
(* confidence >= threshold; the accepted list holds exactly those          *)
(* candidates, and wiki_qid and wiki_qid_confidence are those of its       *)
(* first element, whose confidence is the maximum over all returned.       *)
(***************************************************************************)
reaches(s) == float_ge(s[4], threshold)

C6_AcceptedIffThresholdReached ==
    RowResolved =>
        LET list == OutputRecord.wiki_qid_candidates
            good == {i \in 1..Len(scored) : reaches(scored[i])}
        IN  /\ (OutputRecord.wiki_qid # <<>>) = (good # {})
            /\ good # {} =>
                 /\ Len(list) = Cardinality(good)
                 /\ {list[k].qid : k \in 1..Len(list)} = {scored[i][1] : i \in good}
                 /\ \A k \in 1..Len(list) :
                      /\ DOMAIN list[k] = {"qid", "label", "description", "confidence"}
                      /\ float_ge(list[k].confidence, threshold)
                 /\ OutputRecord.wiki_qid = list[1].qid
                 /\ OutputRecord.wiki_qid_confidence = list[1].confidence
                 /\ \A i \in 1..Len(scored) :
                      float_ge(list[1].confidence, scored[i][4])

C6_Witness ==
    /\ RowResolved
    /\ OutputRecord.wiki_qid # <<>>
    /\ OutputRecord.wiki_qid_confidence = threshold
    /\ \E i \in 1..Len(scored) : ~ reaches(scored[i])

(***************************************************************************)
(* C7  The scored list is ordered by confidence descending, candidates of  *)
(* equal confidence in the order of the Candidate Source; so are the       *)
(* accepted list and the fallback list.                                    *)
(***************************************************************************)
C7_SortedAndStable ==
    RowResolved =>
        /\ \A i, j \in 1..Len(scored) :
             i < j =>
                 /\ float_ge(scored[i][4], scored[j][4])
                 /\ scored[i][4] = scored[j][4] =>
                        position(scored[i][1]) < position(scored[j][1])
        /\ LET list == OutputRecord.wiki_qid_candidates
           IN  \A a, b \in 1..Len(list) :
                 a < b =>
                     /\ float_ge(entry_confidence(list[a]), entry_confidence(list[b]))
                     /\ entry_confidence(list[a]) = entry_confidence(list[b]) =>
                            position(list[a].qid) < position(list[b].qid)

C7_Witness ==
    /\ RowResolved
    /\ \E i, j \in 1..Len(scored) :
         i < j /\ scored[i][4] = scored[j][4]
    /\ \E i, j \in 1..Len(scored) :
         i < j /\ position(scored[i][1]) > position(scored[j][1])

(***************************************************************************)
(* C8  When the Candidate Source answers and no candidate reaches the      *)
(* threshold, wiki_qid and wiki_qid_confidence are empty strings and the   *)
(* candidate field holds the first min(3, n) entries of the sorted list;   *)
(* an Accepted row never has an empty wiki_qid.                            *)
(***************************************************************************)
C8_UnresolvedKeepsTopThree ==
    RowResolved =>
        LET list == OutputRecord.wiki_qid_candidates
            n    == returned[idx - 1]
        IN  /\ (\A i \in 1..Len(scored) : ~ reaches(scored[i])) =>
                 /\ OutputRecord.wiki_qid = <<>>
                 /\ OutputRecord.wiki_qid_confidence = <<>>
                 /\ Len(scored) = n
                 /\ Len(list) = IF n < 3 THEN n ELSE 3
                 /\ \A k \in 1..Len(list) :
                      list[k] = [qid |-> scored[k][1], label |-> scored[k][2],
                                 desc |-> scored[k][3], raw_conf |-> scored[k][4]]
            /\ (\E i \in 1..Len(scored) : reaches(scored[i])) =>
                 /\ OutputRecord.wiki_qid # <<>>
                 /\ \A k \in 1..Len(list) : "raw_conf" \notin DOMAIN list[k]

C8_Witness ==
    /\ RowResolved
    /\ returned[idx - 1] > 3
    /\ OutputRecord.wiki_qid = <<>>
    /\ Len(OutputRecord.wiki_qid_candidates) = 3

(***************************************************************************)
(* C9  Scoring never fails: when the Entity Detail lookup fails, returns   *)
(* nothing or returns a document without an entry for the candidate or     *)
(* without sitelinks, score_candidate returns a confidence computed with   *)
(* a canonical-link contribution of 0.0 and raises no error.               *)
(***************************************************************************)
C9_DegradedLookupGivesNoBonus ==
    (pc = "scoring" /\ scored # <<>>) =>
        LET c == search_hits[Len(scored)]
        IN  /\ error = ""
            /\ Len(scored) = entityCalls[idx]
            /\ degraded(ent, c.id) =>
                 /\ c.id \notin linked
                 /\ scored[Len(scored)][4] =
                        capped(contributions(get(c, "label"), get(c, "description"),
                                             rows[idx], FALSE))

C9_Witness ==
    /\ pc = "scoring"
    /\ scored # <<>>
    /\ ent # NoJson
    /\ "entities" \in DOMAIN ent
    /\ search_hits[Len(scored)].id \in DOMAIN ent.entities
    /\ degraded(ent, search_hits[Len(scored)].id)
    /\ float_gt(scored[Len(scored)][4], F_0_0)

(***************************************************************************)
(* C10  For each row the number of get_entity_data calls equals the        *)
(* number of candidates search_wikidata returned for it: one call per      *)
(* candidate, none for a skipped row or an empty answer; each call comes   *)
(* after the row's single search_wikidata call and before the row's        *)
(* output record is appended.                                              *)
(***************************************************************************)
C10_Counts ==
    \A i \in 1..Len(rows) :
        /\ searchCalls[i] <= 1
        /\ entityCalls[i] <= returned[i]
        /\ returned[i] > 0 => searchCalls[i] = 1
        /\ skip_row(rows[i]) => searchCalls[i] = 0 /\ entityCalls[i] = 0
        /\ emitted(i) => entityCalls[i] = returned[i]
        /\ (pc = "scoring" /\ idx = i) => entityCalls[i] = Len(scored)

C10_Order ==
    [][entityCalls' # entityCalls =>
          /\ idx <= Len(rows)
          /\ entityCalls' = [entityCalls EXCEPT ![idx] = @ + 1]
          /\ searchCalls[idx] = 1
          /\ searchCalls' = searchCalls
          /\ Len(results) = idx - 1
          /\ results' = results]_vars

C10_OneLookupPerCandidate == []C10_Counts /\ C10_Order

C10_Witness ==
    \E i \in 1..Len(rows) :
        /\ emitted(i)
        /\ returned[i] >= 2
        /\ entityCalls[i] = returned[i]
        /\ \E j \in 1..Len(rows) : j # i /\ emitted(j) /\ searchCalls[j] = 0

====
